---- MODULE Spec2Model ----
(***************************************************************************)
(* pg_jalali_calendar: the SQL-callable functions of src/lib.rs.  Every    *)
(* function is pure; the state is one client session that calls a function *)
(* on date texts and may feed a returned text into a second and a third    *)
(* call.  Texts are sequences of one-character strings, so that formatting *)
(* and parsing are computed as the code computes them.                     *)
(*                                                                         *)
(* The calendar library calls (icu_calendar 1.x, chrono, date_component)   *)
(* are modelled at their call sites: the Persian calendar by the 33-year   *)
(* rule of icu_calendar's Persian (its table of corrections starts at year *)
(* 1502, beyond the years used here), ISO by the proleptic Gregorian rule. *)
(***************************************************************************)
EXTENDS Integers, Sequences, FiniteSets, TLC

VARIABLES pc, fn, date, date2, num, ret, ret2, ret3

vars == <<pc, fn, date, date2, num, ret, ret2, ret3>>

(***************************************************************************)
(* Texts: format!("{:0>w}", n), str::split, str::parse::<i32 / u8>.         *)
(***************************************************************************)
Digits == <<"0", "1", "2", "3", "4", "5", "6", "7", "8", "9">>

IsDigit(c) == \E i \in 1..10 : Digits[i] = c

DigitVal(c) == (CHOOSE i \in 1..10 : Digits[i] = c) - 1

I32Max == 2147483647

I32Min == (0 - I32Max) - 1

U8Max == 255

RECURSIVE DecimalDigits(_)
DecimalDigits(n) ==
    IF n < 10 THEN <<Digits[n + 1]>>
    ELSE DecimalDigits(n \div 10) \o <<Digits[(n % 10) + 1]>>

\* The digits of the magnitude of a negative i32, which for -2^31 is no i32:
\* the magnitude is m + 1 for m = -(n + 1).
MagnitudeDigits(m) ==
    IF m % 10 < 9 THEN (IF m < 10 THEN <<>> ELSE DecimalDigits(m \div 10)) \o <<Digits[(m % 10) + 2]>>
    ELSE DecimalDigits((m \div 10) + 1) \o <<"0">>

\* Display of an integer: a minus sign, then the digits of the magnitude.
Display(n) == IF n < 0 THEN <<"-">> \o MagnitudeDigits(0 - (n + 1)) ELSE DecimalDigits(n)

\* "{:0>w}": fill character '0', right-aligned, minimum width w.  The fill goes
\* to the left of the whole rendering, sign included.
RECURSIVE PadLeft(_, _)
PadLeft(s, w) == IF Len(s) >= w THEN s ELSE PadLeft(<<"0">> \o s, w)

FormatYmd(y, m, d, sep) ==
    PadLeft(Display(y), 4) \o <<sep>> \o PadLeft(Display(m), 2) \o <<sep>> \o PadLeft(Display(d), 2)

\* str::split(sep): the segments between separators, empty ones kept.
RECURSIVE Split(_, _)
Split(s, sep) ==
    IF \A i \in 1..Len(s) : s[i] # sep THEN <<s>>
    ELSE LET k == CHOOSE i \in 1..Len(s) : s[i] = sep /\ \A j \in 1..(i - 1) : s[j] # sep
         IN  <<SubSeq(s, 1, k - 1)>> \o Split(SubSeq(s, k + 1, Len(s)), sep)

NoInt == [ok |-> FALSE, val |-> 0]

SomeInt(v) == [ok |-> TRUE, val |-> v]

\* Digits accumulated upwards; an overflow past max or a non-digit is an error.
RECURSIVE ParsePos(_, _, _)
ParsePos(s, acc, max) ==
    IF s = <<>> THEN SomeInt(acc)
    ELSE IF ~IsDigit(Head(s)) THEN NoInt
    ELSE LET d == DigitVal(Head(s))
         IN  IF acc > (max - d) \div 10 THEN NoInt
             ELSE ParsePos(Tail(s), acc * 10 + d, max)

\* Digits accumulated downwards (a negative i32), down to min.
RECURSIVE ParseNeg(_, _, _)
ParseNeg(s, acc, min) ==
    IF s = <<>> THEN SomeInt(acc)
    ELSE IF ~IsDigit(Head(s)) THEN NoInt
    ELSE LET d == DigitVal(Head(s))
         IN  IF acc < (min + d + 9) \div 10 THEN NoInt
             ELSE ParseNeg(Tail(s), acc * 10 - d, min)

\* str::parse::<i32>(): an optional sign, then at least one digit.
ParseI32(s) ==
    IF s = <<>> THEN NoInt
    ELSE IF Head(s) = "-" THEN (IF Len(s) = 1 THEN NoInt ELSE ParseNeg(Tail(s), 0, I32Min))
    ELSE IF Head(s) = "+" THEN (IF Len(s) = 1 THEN NoInt ELSE ParsePos(Tail(s), 0, I32Max))
    ELSE ParsePos(s, 0, I32Max)

\* str::parse::<u8>(): an optional plus sign, then at least one digit; no minus.
ParseU8(s) ==
    IF s = <<>> THEN NoInt
    ELSE IF Head(s) = "+" THEN (IF Len(s) = 1 THEN NoInt ELSE ParsePos(Tail(s), 0, U8Max))
    ELSE ParsePos(s, 0, U8Max)

(***************************************************************************)
(* Call results: a text, an integer, a boolean, or a panic with its cause. *)
(***************************************************************************)
Panic(why) == [kind |-> "panic", text |-> <<>>, int |-> 0, bool |-> FALSE, msg |-> why]

TextRet(t) == [kind |-> "text", text |-> t, int |-> 0, bool |-> FALSE, msg |-> ""]

IntRet(i) == [kind |-> "int", text |-> <<>>, int |-> i, bool |-> FALSE, msg |-> ""]

BoolRet(b) == [kind |-> "bool", text |-> <<>>, int |-> 0, bool |-> b, msg |-> ""]

NoRet == [kind |-> "none", text |-> <<>>, int |-> 0, bool |-> FALSE, msg |-> ""]

\* A parsed or constructed date, or the failure that stopped it.
NoDate(why) == [ok |-> FALSE, year |-> 0, month |-> 0, day |-> 0, msg |-> why]

SomeDate(y, m, d) == [ok |-> TRUE, year |-> y, month |-> m, day |-> d, msg |-> ""]

(***************************************************************************)
(* ISO (proleptic Gregorian) dates over the fixed day number (Rata Die).   *)
(***************************************************************************)
IsoIsLeapYear(y) == y % 4 = 0 /\ (y % 400 = 0 \/ y % 100 # 0)

IsoMonthDays(y, m) ==
    IF m \in {4, 6, 9, 11} THEN 30
    ELSE IF m = 2 THEN (IF IsoIsLeapYear(y) THEN 29 ELSE 28)
    ELSE IF m \in 1..12 THEN 31 ELSE 0

FixedFromIso(y, m, d) ==
    LET p == y - 1
    IN  365 * p + (p \div 4) - (p \div 100) + (p \div 400)
        + ((367 * m - 362) \div 12)
        + (IF m <= 2 THEN 0 ELSE IF IsoIsLeapYear(y) THEN 0 - 1 ELSE 0 - 2)
        + d

IsoYearFromFixed(rd) ==
    LET d0 == rd - 1
        n400 == d0 \div 146097
        d1 == d0 % 146097
        n100 == d1 \div 36524
        d2 == d1 % 36524
        n4 == d2 \div 1461
        d3 == d2 % 1461
        n1 == d3 \div 365
        y == 400 * n400 + 100 * n100 + 4 * n4 + n1
    IN  IF n100 = 4 \/ n1 = 4 THEN y ELSE y + 1

IsoInMonth(rd, y, m) == SomeDate(y, m, rd - FixedFromIso(y, m, 1) + 1)

IsoInYear(rd, y) ==
    IsoInMonth(rd, y,
        (12 * ((rd - FixedFromIso(y, 1, 1))
               + (IF rd < FixedFromIso(y, 3, 1) THEN 0 ELSE IF IsoIsLeapYear(y) THEN 1 ELSE 2))
         + 373) \div 367)

IsoFromFixed(rd) == IsoInYear(rd, IsoYearFromFixed(rd))

\* Date::try_new_iso_date / try_new_gregorian_date: the month and the day in range.
TryNewIsoDate(y, m, d) ==
    IF m \in 1..12 /\ d >= 1 /\ d <= IsoMonthDays(y, m) THEN SomeDate(y, m, d)
    ELSE NoDate("gregorian date")

(***************************************************************************)
(* Persian dates: icu_calendar's Persian (33-year rule, with the years the *)
(* rule gets wrong from 1502 on: each loses its leap day to the next year). *)
(***************************************************************************)
PersianEpoch == 226896

MinNonLeapCorrection == 1502

NonLeapCorrection ==
    { 1502, 1601, 1634, 1667, 1700, 1733, 1766, 1799, 1832, 1865, 1898, 1931, 1964,
      1997, 2030, 2059, 2063, 2096, 2129, 2158, 2162, 2191, 2195, 2224, 2228, 2257,
      2261, 2290, 2294, 2323, 2327, 2356, 2360, 2389, 2393, 2422, 2426, 2455, 2459,
      2488, 2492, 2521, 2525, 2554, 2558, 2587, 2591, 2620, 2624, 2653, 2657, 2686,
      2690, 2719, 2723, 2748, 2752, 2756, 2781, 2785, 2789, 2818, 2822, 2847, 2851,
      2855, 2880, 2884, 2888, 2913, 2917, 2921, 2946, 2950, 2954, 2979, 2983, 2987 }

\* (25 * y + 11) mod 33 < 8, the year reduced first: y is any i32.
PersianIsLeapYear(y) ==
    IF y >= MinNonLeapCorrection /\ y \in NonLeapCorrection THEN FALSE
    ELSE IF y > MinNonLeapCorrection /\ (y - 1) \in NonLeapCorrection THEN TRUE
    ELSE (25 * (y % 33) + 11) % 33 < 8

PersianMonthDays(y, m) ==
    IF m \in 1..6 THEN 31
    ELSE IF m \in 7..11 THEN 30
    ELSE IF m = 12 THEN (IF PersianIsLeapYear(y) THEN 30 ELSE 29)
    ELSE 0

\* The day before 1 Farvardin of y; a day earlier after a corrected year.
PersianNewYear(y) ==
    PersianEpoch - 1 + 365 * (y - 1) + ((8 * y + 21) \div 33)
    - (IF y > MinNonLeapCorrection /\ (y - 1) \in NonLeapCorrection THEN 1 ELSE 0)

FixedFromPersian(y, m, d) ==
    PersianNewYear(y) - 1 + (IF m <= 7 THEN 31 * (m - 1) ELSE 30 * (m - 1) + 6) + d

PersianInMonth(rd, y, m) == SomeDate(y, m, rd - FixedFromPersian(y, m, 1) + 1)

PersianInYear(rd, y, doy) ==
    PersianInMonth(rd, y, IF doy <= 186 THEN (doy + 30) \div 31 ELSE (doy - 6 + 29) \div 30)

\* 1 + (33 * days + 3) div 12053, which the library computes on i64: the days
\* are split at 12053 so that no product leaves the 32 bits of the checker.
PersianYearFromFixed(rd) ==
    1 + 33 * ((rd - PersianEpoch + 1) \div 12053)
      + ((33 * ((rd - PersianEpoch + 1) % 12053) + 3) \div 12053)

\* Day 366 of a corrected year is the first day of the next year.
PersianInCorrectedYear(rd, y, doy) ==
    IF doy = 366 /\ y >= MinNonLeapCorrection /\ y \in NonLeapCorrection
    THEN PersianInYear(rd, y + 1, 1)
    ELSE PersianInYear(rd, y, doy)

PersianFromFixed(rd) ==
    PersianInCorrectedYear(rd, PersianYearFromFixed(rd),
                           1 + (rd - FixedFromPersian(PersianYearFromFixed(rd), 1, 1)))

\* Date::try_new_persian_date: any year; the month and the day in range.
TryNewPersianDate(y, m, d) ==
    IF m \in 1..12 /\ d >= 1 /\ d <= PersianMonthDays(y, m) THEN SomeDate(y, m, d)
    ELSE NoDate("jalali date")

\* Date<Persian>::to_iso and Date<Iso / Gregorian>::to_calendar(Persian).
PersianToIso(p) == IsoFromFixed(FixedFromPersian(p.year, p.month, p.day))

IsoToPersian(g) == PersianFromFixed(FixedFromIso(g.year, g.month, g.day))

(***************************************************************************)
(* Library calls of the day arithmetic.                                    *)
(***************************************************************************)
\* a + b leaves i32.
AddOverflows(a, b) == (b > 0 /\ a > I32Max - b) \/ (b < 0 /\ a < I32Min - b)

\* a + b on i32 without overflow checks: the sum modulo 2^32.
WrappingAdd(a, b) ==
    IF b > 0 /\ a > I32Max - b THEN (a + I32Min) + (b + I32Min)
    ELSE IF b < 0 /\ a < I32Min - b THEN (a - I32Min) + (b - I32Min)
    ELSE a + b

\* chrono's NaiveDate holds the years -262143 .. 262142.
ChronoInRange(y) == y >= 0 - 262143 /\ y <= 262142

\* The NaiveDate of a day number, then Date::try_new_iso_date of its fields.
NaiveDateOfFixed(rd) ==
    IF ChronoInRange(IsoYearFromFixed(rd)) THEN IsoFromFixed(rd) ELSE NoDate("add day")

\* NaiveDate::from_ymd_opt(..), None outside chrono's years, then
\* checked_add_days(Days::new(n)) / checked_sub_days for 0 <= n < 2^31.  A day
\* number that leaves i32 is far outside chrono's years.
CheckedAddDays(g, n) ==
    IF ~ChronoInRange(g.year) THEN NoDate("iso conversion")
    ELSE IF AddOverflows(FixedFromIso(g.year, g.month, g.day), n) THEN NoDate("add day")
    ELSE NaiveDateOfFixed(FixedFromIso(g.year, g.month, g.day) + n)

CheckedSubDays(g, n) ==
    IF ~ChronoInRange(g.year) THEN NoDate("iso conversion")
    ELSE IF AddOverflows(FixedFromIso(g.year, g.month, g.day), 0 - n) THEN NoDate("add day")
    ELSE NaiveDateOfFixed(FixedFromIso(g.year, g.month, g.day) - n)

DateComponentOfNeverInverted(a, b) ==
    [interval_days |-> IF a > b THEN a - b ELSE b - a, invert |-> FALSE]

\* date_component::calculate on two midnights a and b (day numbers): the whole
\* days between them, never negative, and invert when a is after b.
DateComponentOf(a, b) ==
    [interval_days |-> IF a > b THEN a - b ELSE b - a, invert |-> a > b]

\* Utc.with_ymd_and_hms(y, m, d, 0, 0, 0): Single only inside chrono's years.
UtcWithYmdAndHms(g, which) == IF ChronoInRange(g.year) THEN g ELSE NoDate(which)

\* date_component::calculate on the two midnights.
DateComponentCalculate(s, e) ==
    DateComponentOf(FixedFromIso(s.year, s.month, s.day), FixedFromIso(e.year, e.month, e.day))

\* i32 as u32 (TrieValue::to_u32), kept in two halves: the value is hi * 2^31 + lo.
ToU32(n) == IF n >= 0 THEN [hi |-> 0, lo |-> n] ELSE [hi |-> 1, lo |-> (n + I32Max) + 1]

U32Le(a, b) == a.hi < b.hi \/ (a.hi = b.hi /\ a.lo <= b.lo)

(***************************************************************************)
(* The functions of src/lib.rs.  A function whose body names a value more  *)
(* than once is split at that value: the second operator takes it.         *)
(***************************************************************************)
RawDate(year, month, day) ==
    IF ~year.ok THEN NoDate("year value")
    ELSE IF ~month.ok THEN NoDate("month value")
    ELSE IF ~day.ok THEN NoDate("day value")
    ELSE SomeDate(year.val, month.val, day.val)

ParseSegments(splitted) ==
    IF Len(splitted) # 3 THEN NoDate("format")
    ELSE RawDate(ParseI32(splitted[1]), ParseU8(splitted[2]), ParseU8(splitted[3]))

jalali_date_parse_raw(text) == ParseSegments(Split(text, "/"))

PersianDateOfRaw(raw) ==
    IF ~raw.ok THEN raw ELSE TryNewPersianDate(raw.year, raw.month, raw.day)

jalali_date_parse(text) == PersianDateOfRaw(jalali_date_parse_raw(text))

IsoOfPersian(p) == IF ~p.ok THEN p ELSE PersianToIso(p)

jalali_date_to_gregorian_internal(text) == IsoOfPersian(jalali_date_parse(text))

SignedDaysAdditionAfterSign(di, addition, overflow_checks) ==
    IntRet(WrappingAdd(IF di.invert THEN 0 - di.interval_days ELSE di.interval_days, addition))

\* sum * if date_interval.invert { -1 } else { 1 } on i32: only -2^31 * -1 overflows.
SignOfSum(sum, invert, overflow_checks) ==
    IF ~invert THEN IntRet(sum)
    ELSE IF sum # I32Min THEN IntRet(0 - sum)
    ELSE IF overflow_checks THEN Panic("attempt to multiply with overflow")
    ELSE IntRet(I32Min)

\* (date_interval.interval_days as i32 + addition) * if date_interval.invert { -1 } else { 1 }
\* on i32: an overflow panics in a build with overflow checks and wraps in a
\* build without them.
SignedDays(di, addition, overflow_checks) ==
    IF overflow_checks /\ AddOverflows(di.interval_days, addition)
    THEN Panic("attempt to add with overflow")
    ELSE SignOfSum(WrappingAdd(di.interval_days, addition), di.invert, overflow_checks)

DiffOfUtc(s, e, addition, overflow_checks) ==
    IF ~s.ok THEN Panic(s.msg)
    ELSE IF ~e.ok THEN Panic(e.msg)
    ELSE SignedDays(DateComponentCalculate(s, e), addition, overflow_checks)

DiffOfIso(s, e, addition, overflow_checks) ==
    IF ~s.ok THEN Panic(s.msg)
    ELSE IF ~e.ok THEN Panic(e.msg)
    ELSE DiffOfUtc(UtcWithYmdAndHms(s, "start"), UtcWithYmdAndHms(e, "end"), addition,
                   overflow_checks)

jalali_date_diff_with_addition(date_start, date_end, addition, overflow_checks) ==
    DiffOfIso(jalali_date_to_gregorian_internal(date_start),
              jalali_date_to_gregorian_internal(date_end), addition, overflow_checks)

jalali_date_diff(date_start, date_end, overflow_checks) ==
    jalali_date_diff_with_addition(date_start, date_end, 0, overflow_checks)

FormatDate(d, sep) ==
    IF ~d.ok THEN Panic(d.msg) ELSE TextRet(FormatYmd(d.year, d.month, d.day, sep))

jalali_date_to_gregorian(text) == FormatDate(jalali_date_to_gregorian_internal(text), "-")

PersianOfAdded(added) == IF ~added.ok THEN added ELSE IsoToPersian(added)

\* days.abs() as u64 of days = -2^31: a panic in a build with overflow checks;
\* without them abs() wraps to -2^31, the cast gives 2^64 - 2^31 days, and
\* checked_sub_days of so many days is None.
SubDaysOfI32Min(overflow_checks) ==
    IF overflow_checks THEN NoDate("attempt to negate with overflow") ELSE NoDate("add day")

AddDaysToIso(g, days, overflow_checks) ==
    IF ~g.ok THEN g
    ELSE IF ~ChronoInRange(g.year) THEN NoDate("iso conversion")
    ELSE IF days = I32Min THEN SubDaysOfI32Min(overflow_checks)
    ELSE PersianOfAdded(IF days > 0 THEN CheckedAddDays(g, days)
                        ELSE CheckedSubDays(g, IF days < 0 THEN 0 - days ELSE days))

jalali_date_add_days_internal(text, days, overflow_checks) ==
    AddDaysToIso(jalali_date_to_gregorian_internal(text), days, overflow_checks)

jalali_date_add_days(text, days, overflow_checks) ==
    FormatDate(jalali_date_add_days_internal(text, days, overflow_checks), "/")

InvalidMonthsNegativeOnly(months) == months < 0

\* if months <= 0 { panic!("invalid months value") }
InvalidMonths(months) == months <= 0

\* The day of the result: date_check is new_year/01/01, whose leap status decides
\* month 12.  (year, the source year, is not read.)
ClampDay(year, new_year, new_month, day) ==
    IF (PersianIsLeapYear(new_year) /\ new_month = 12 /\ day > 29)
       \/ (new_month > 6 /\ new_month < 12 /\ day > 30)
    THEN 30
    ELSE IF new_month = 12 /\ day > 29 THEN 29
    ELSE day

AddMonthsResult(raw, new_year, new_month) ==
    IF ~TryNewPersianDate(new_year, 1, 1).ok THEN Panic("jalali date")
    ELSE TextRet(FormatYmd(new_year, new_month,
                           ClampDay(raw.year, new_year, new_month, raw.day), "/"))

\* new_month_raw is a u8: month - x below 0 is an overflow.  new_year_raw + 1 is
\* on i32: past 2^31 - 1 it panics in a build with overflow checks and wraps in a
\* build without them.
AddMonthsCarry(raw, new_year_raw, new_month_raw, overflow_checks) ==
    IF new_month_raw < 0 \/ new_month_raw > U8Max THEN Panic("overflow")
    ELSE IF new_month_raw > 12
         THEN (IF overflow_checks /\ AddOverflows(new_year_raw, 1)
               THEN Panic("attempt to add with overflow")
               ELSE AddMonthsResult(raw, WrappingAdd(new_year_raw, 1), new_month_raw - 12))
    ELSE AddMonthsResult(raw, new_year_raw, new_month_raw)

\* year + (months as i32 / 12) on i32, then the month; months > 0 here, and the
\* branches of the code for months < 0 are not reached.
AddMonthsOfPositive(raw, months, overflow_checks) ==
    IF overflow_checks /\ AddOverflows(raw.year, months \div 12)
    THEN Panic("attempt to add with overflow")
    ELSE AddMonthsCarry(raw, WrappingAdd(raw.year, months \div 12),
                        raw.month + (months % 12), overflow_checks)

AddMonthsToRaw(raw, months, overflow_checks) ==
    IF ~raw.ok THEN Panic(raw.msg)
    ELSE IF ~TryNewPersianDate(raw.year, raw.month, raw.day).ok THEN Panic("jalali date")
    ELSE IF InvalidMonths(months) THEN Panic("invalid months value")
    ELSE AddMonthsOfPositive(raw, months, overflow_checks)

jalali_date_add_months(text, months, overflow_checks) ==
    AddMonthsToRaw(jalali_date_parse_raw(text), months, overflow_checks)

JalaliOfGregorianRaw(raw) ==
    IF ~raw.ok THEN Panic(raw.msg)
    ELSE IF ~TryNewIsoDate(raw.year, raw.month, raw.day).ok THEN Panic("gregorian date")
    ELSE FormatDate(IsoToPersian(raw), "/")

gregorian_date_to_jalali(text) == JalaliOfGregorianRaw(ParseSegments(Split(text, "-")))

StartText == <<"S", "t", "a", "r", "t">>

EndText == <<"E", "n", "d">>

MiddleText == <<"M", "i", "d", "d", "l", "e">>

UnknownText == <<"U", "n", "k", "n", "o", "w", "n">>

MonthEndIgnoringLeap(dv) ==
    (dv.day = 29 /\ dv.month = 12)
    \/ (dv.day = 30 /\ dv.month >= 7 /\ dv.month <= 11)
    \/ (dv.day = 31 /\ dv.month <= 6)

\* month_end: the date is the last day of its month.
MonthEnd(dv) ==
    (dv.day = 29 /\ dv.month = 12 /\ ~PersianIsLeapYear(dv.year))
    \/ (dv.day = 30 /\ dv.month >= 7
        /\ (dv.month <= 11 \/ (dv.month = 12 /\ PersianIsLeapYear(dv.year))))
    \/ (dv.day = 31 /\ dv.month <= 6)

AnchorRuleUpTo30(dv, start) ==
    IF start >= 1 /\ start <= 30
    THEN (IF ToU32(dv.day) = ToU32(start) THEN EndText
          ELSE IF ToU32(dv.day) = ToU32(start + 1) THEN StartText
          ELSE MiddleText)
    ELSE UnknownText

\* if start >= 1 && start <= 31 { End / Start / Middle } "Unknown"
AnchorRule(dv, start) ==
    IF start >= 1 /\ start <= 31
    THEN (IF ToU32(dv.day) = ToU32(start) THEN EndText
          ELSE IF ToU32(dv.day) = ToU32(start + 1) THEN StartText
          ELSE MiddleText)
    ELSE UnknownText

\* day 1 of month 1 with start < 30: prev is the day before, from
\* jalali_date_add_days_internal(date, -1).
NewYearRule(prev, dv, start) ==
    IF ~prev.ok THEN Panic(prev.msg)
    ELSE IF ToU32(start) = ToU32(prev.day) THEN TextRet(StartText)
    ELSE TextRet(AnchorRule(dv, start))

PeriodStateOf(dv, text, start, overflow_checks) ==
    IF ~dv.ok THEN Panic(dv.msg)
    ELSE IF MonthEnd(dv) /\ U32Le(ToU32(dv.day), ToU32(start)) THEN TextRet(EndText)
    ELSE IF dv.day = 1 /\ dv.month = 1 /\ start >= 30 THEN TextRet(StartText)
    ELSE IF dv.day = 1 /\ dv.month = 1
         THEN NewYearRule(jalali_date_add_days_internal(text, 0 - 1, overflow_checks), dv, start)
    ELSE IF dv.day = 1
            /\ ((dv.month >= 2 /\ dv.month <= 7 /\ start = 31)
                \/ (dv.month >= 8 /\ dv.month <= 12 /\ start >= 30))
         THEN TextRet(StartText)
    ELSE TextRet(AnchorRule(dv, start))

jalali_date_period_state(text, start, overflow_checks) ==
    PeriodStateOf(jalali_date_parse(text), text, start, overflow_checks)

\* now is the UTC date of chrono::offset::Utc::now(), which panics on a clock
\* before 1970.
jalali_date_now(now) ==
    IF now.year < 1970 THEN Panic("system time before Unix epoch")
    ELSE IF ~TryNewIsoDate(now.year, now.month, now.day).ok THEN Panic("invalid date")
    ELSE FormatDate(IsoToPersian(now), "/")

LeapYearOf(dv) == IF ~dv.ok THEN Panic(dv.msg) ELSE BoolRet(PersianIsLeapYear(dv.year))

jalali_date_is_leap_year(text) == LeapYearOf(jalali_date_parse(text))

(***************************************************************************)
(* The arguments a session passes.                                         *)
(***************************************************************************)
YearSpan == 1

MaxDay == 31

MaxDelta == 35

MaxMonths == 25

MaxAddition == 2

MaxAnchor == 33

MaxBelowAnchor == 2

\* A leap year (1403) and the common years after it, a year before year 1, and
\* the first year whose leap day moves to the next year (1502).
JalaliYears == {0 - 5, 1502} \cup (1403..(1403 + YearSpan))

GregorianYears == {616, 2124} \cup (2024..(2024 + YearSpan))

\* The years the clock may show: around the epoch, and the present.
ClockYears == {1969, 1970} \cup (2024..(2026 + YearSpan))

\* A date text as a caller writes it: the sign first, then the zero-padded year.
WriteYmd(y, m, d, sep) ==
    (IF y < 0 THEN <<"-">> \o PadLeft(DecimalDigits(0 - y), 3) ELSE PadLeft(DecimalDigits(y), 4))
    \o <<sep>> \o PadLeft(DecimalDigits(m), 2) \o <<sep>> \o PadLeft(DecimalDigits(d), 2)

MalformedTexts ==
    { <<"1", "4", "0", "3", "/", "0", "1">>,
      <<"2", "0", "2", "4", "-", "0", "8">>,
      <<"1", "4", "0", "3", "/", "0", "x", "/", "0", "1">>,
      <<"2", "0", "2", "4", "-", "0", "8", "-", "3", "0", "0">>,
      <<"y", "/", "0", "1", "/", "0", "1">> }

\* Days of Jalali 261522, whose Gregorian year 262143 is past chrono's last year.
FarTexts == { WriteYmd(261522, m, d, "/") : m \in {1, 12}, d \in {1, 2, 29, 30} }

JalaliTexts ==
    { WriteYmd(y, m, d, "/") : y \in JalaliYears, m \in 1..12, d \in 1..MaxDay }
    \cup FarTexts \cup MalformedTexts

GregorianTexts ==
    { WriteYmd(y, m, d, "-") : y \in GregorianYears, m \in 1..12, d \in 1..MaxDay }
    \cup MalformedTexts

\* The first dates of a difference: the days of months 1, 6 and 12.
StartTexts ==
    { WriteYmd(y, m, d, "/") : y \in JalaliYears, m \in {1, 6, 12}, d \in 1..MaxDay }
    \cup FarTexts \cup MalformedTexts

\* The second dates of a difference: first and last days of months 1, 7 and 12.
EndTexts == { WriteYmd(y, m, d, "/") : y \in JalaliYears, m \in {1, 7, 12}, d \in {1, 29, 30} }

\* Days to add: small counts, counts past a year, and the two ends of i32.
DayDeltas == ((0 - MaxDelta)..MaxDelta) \cup {0 - 800, 0 - 366, 366, 800} \cup {I32Min, I32Max}

\* Months to add: small counts and the last i32.
MonthCounts == ((0 - MaxMonths)..MaxMonths) \cup {I32Max}

\* Days of the last year an i32 holds.
LastYearTexts == { WriteYmd(I32Max, m, d, "/") : m \in {1, 12}, d \in {1, 29} }

\* Small adjustments and the two ends of i32.
Additions == ((0 - MaxAddition)..MaxAddition) \cup {I32Min, I32Max}

AnchorDays == (0 - MaxBelowAnchor)..MaxAnchor

(***************************************************************************)
(* The session: one call, then calls on what the calls before returned.    *)
(***************************************************************************)
Init ==
    /\ pc = "idle"
    /\ fn = "none"
    /\ date = <<>>
    /\ date2 = <<>>
    /\ num = 0
    /\ ret = NoRet
    /\ ret2 = NoRet
    /\ ret3 = NoRet

Call(f, d, d2, n, r) ==
    /\ pc' = "called"
    /\ fn' = f
    /\ date' = d
    /\ date2' = d2
    /\ num' = n
    /\ ret' = r
    /\ UNCHANGED <<ret2, ret3>>

Second(f, r) ==
    /\ pc = "called"
    /\ fn = f
    /\ pc' = "chained"
    /\ ret2' = r
    /\ UNCHANGED <<fn, date, date2, num, ret, ret3>>

Third(f, r) ==
    /\ pc = "chained"
    /\ fn = f
    /\ pc' = "done"
    /\ ret3' = r
    /\ UNCHANGED <<fn, date, date2, num, ret, ret2>>

\* The clock reads some day.
JalaliDateNow ==
    /\ pc = "idle"
    /\ \E y \in ClockYears, m \in 1..12 :
           \E d \in 1..IsoMonthDays(y, m) :
              Call("jalali_date_now", <<>>, <<>>, 0, jalali_date_now(SomeDate(y, m, d)))

JalaliDateToGregorian ==
    /\ pc = "idle"
    /\ \E d \in JalaliTexts :
           Call("jalali_date_to_gregorian", d, <<>>, 0, jalali_date_to_gregorian(d))

GregorianDateToJalali ==
    /\ pc = "idle"
    /\ \E d \in GregorianTexts :
           Call("gregorian_date_to_jalali", d, <<>>, 0, gregorian_date_to_jalali(d))

\* The returned Gregorian text converted back.
GregorianDateToJalaliOfResult ==
    /\ ret.kind = "text"
    /\ Second("jalali_date_to_gregorian", gregorian_date_to_jalali(ret.text))

\* The returned Jalali text converted back.
JalaliDateToGregorianOfResult ==
    /\ ret.kind = "text"
    /\ Second("gregorian_date_to_jalali", jalali_date_to_gregorian(ret.text))

JalaliDateDiffWithAddition ==
    /\ pc = "idle"
    /\ \E a \in StartTexts, b \in EndTexts, k \in Additions, overflow_checks \in BOOLEAN :
           Call("jalali_date_diff_with_addition", a, b, k,
                jalali_date_diff_with_addition(a, b, k, overflow_checks))

JalaliDateDiff ==
    /\ pc = "idle"
    /\ \E a \in StartTexts, b \in EndTexts, overflow_checks \in BOOLEAN :
           Call("jalali_date_diff", a, b, 0, jalali_date_diff(a, b, overflow_checks))

\* The same two dates in the other order.
JalaliDateDiffReversed ==
    /\ ret.kind = "int"
    /\ \E overflow_checks \in BOOLEAN :
           Second("jalali_date_diff", jalali_date_diff(date2, date, overflow_checks))

\* The plain difference of the dates of a difference with addition.
JalaliDateDiffOfSameDates ==
    /\ ret.kind = "int"
    /\ \E overflow_checks \in BOOLEAN :
           Second("jalali_date_diff_with_addition", jalali_date_diff(date, date2, overflow_checks))

JalaliDateAddDays ==
    /\ pc = "idle"
    /\ \E d \in JalaliTexts, n \in DayDeltas, overflow_checks \in BOOLEAN :
           Call("jalali_date_add_days", d, <<>>, n, jalali_date_add_days(d, n, overflow_checks))

\* The difference from the date to the returned date.
JalaliDateDiffToResult ==
    /\ ret.kind = "text"
    /\ \E overflow_checks \in BOOLEAN :
           Second("jalali_date_add_days", jalali_date_diff(date, ret.text, overflow_checks))

JalaliDateAddMonths ==
    /\ pc = "idle"
    /\ \E d \in JalaliTexts \cup LastYearTexts, k \in MonthCounts, overflow_checks \in BOOLEAN :
           Call("jalali_date_add_months", d, <<>>, k,
                jalali_date_add_months(d, k, overflow_checks))

JalaliDateIsLeapYear ==
    /\ pc = "idle"
    /\ \E d \in JalaliTexts :
           Call("jalali_date_is_leap_year", d, <<>>, 0, jalali_date_is_leap_year(d))

JalaliDatePeriodState ==
    /\ pc = "idle"
    /\ \E d \in JalaliTexts, a \in AnchorDays, overflow_checks \in BOOLEAN :
           Call("jalali_date_period_state", d, <<>>, a,
                jalali_date_period_state(d, a, overflow_checks))

\* The day after the classified date ...
JalaliDateAddOneDay ==
    /\ ret.kind = "text"
    /\ \E overflow_checks \in BOOLEAN :
           Second("jalali_date_period_state", jalali_date_add_days(date, 1, overflow_checks))

\* ... classified with the same anchor day.
JalaliDatePeriodStateOfNextDay ==
    /\ ret2.kind = "text"
    /\ \E overflow_checks \in BOOLEAN :
           Third("jalali_date_period_state",
                 jalali_date_period_state(ret2.text, num, overflow_checks))

NextConvert ==
    \/ JalaliDateNow
    \/ JalaliDateToGregorian
    \/ GregorianDateToJalali
    \/ GregorianDateToJalaliOfResult
    \/ JalaliDateToGregorianOfResult

NextDiff ==
    \/ JalaliDateDiffWithAddition
    \/ JalaliDateDiff
    \/ JalaliDateDiffReversed
    \/ JalaliDateDiffOfSameDates

NextDays ==
    \/ JalaliDateAddDays
    \/ JalaliDateDiffToResult

NextMonths ==
    \/ JalaliDateAddMonths
    \/ JalaliDateIsLeapYear

NextPeriod ==
    \/ JalaliDatePeriodState
    \/ JalaliDateAddOneDay
    \/ JalaliDatePeriodStateOfNextDay

Next ==
    \/ NextConvert
    \/ NextDiff
    \/ NextDays
    \/ NextMonths
    \/ NextPeriod

Spec == Init /\ [][Next]_vars

SpecConvert == Init /\ [][NextConvert]_vars

SpecDiff == Init /\ [][NextDiff]_vars

SpecDays == Init /\ [][NextDays]_vars

SpecMonths == Init /\ [][NextMonths]_vars

SpecPeriod == Init /\ [][NextPeriod]_vars

(***************************************************************************)
(* What the claims speak of.                                               *)
(***************************************************************************)
Called(f) == pc \in {"called", "chained", "done"} /\ fn = f

\* The first argument is a valid Jalali date text.
ValidDate == jalali_date_parse(date).ok

\* The fields of two date texts, compared as calendar dates.
SameYmd(a, b) == a.ok /\ b.ok /\ a.year = b.year /\ a.month = b.month /\ a.day = b.day

Earlier(a, b) ==
    \/ a.year < b.year
    \/ (a.year = b.year /\ a.month < b.month)
    \/ (a.year = b.year /\ a.month = b.month /\ a.day < b.day)

\* The number of days from Jalali date a to Jalali date b, counted on the Jalali
\* calendar itself.
JalaliDaysBetween(a, b) ==
    FixedFromPersian(b.year, b.month, b.day) - FixedFromPersian(a.year, a.month, a.day)

Abs(n) == IF n < 0 THEN 0 - n ELSE n

Min(a, b) == IF a < b THEN a ELSE b

\* The first argument is written with a year from 1000 to 2999: every year text
\* in the call and its results has four digits and no sign.
YearOfFourDigits == Len(date) = 10 /\ date[1] \in {"1", "2"} /\ date[5] \in {"/", "-"}

\* C1: the round trip through the exposed conversions returns the date it began
\* with, in both directions, and the second conversion does not fail.
C1_RoundTrip ==
    /\ (pc = "chained" /\ fn = "jalali_date_to_gregorian")
          => (ret2.kind = "text"
              /\ SameYmd(jalali_date_parse_raw(ret2.text), jalali_date_parse_raw(date)))
    /\ (pc = "chained" /\ fn = "gregorian_date_to_jalali")
          => (ret2.kind = "text"
              /\ SameYmd(ParseSegments(Split(ret2.text, "-")), ParseSegments(Split(date, "-"))))

\* C2: the difference from D to jalali_date_add_days(D, n) is n, and adding 0 days
\* returns D.
C2_AdditiveIdentity ==
    /\ (pc = "chained" /\ fn = "jalali_date_add_days") => ret2 = IntRet(num)
    /\ (Called("jalali_date_add_days") /\ num = 0 /\ ret.kind = "text")
          => SameYmd(jalali_date_parse_raw(ret.text), jalali_date_parse_raw(date))

\* C3: jalali_date_add_months with a positive count returns the text of the date k
\* months on, its day cut to the length of the month reached in the year reached,
\* and that text is a valid Jalali date.
C3_AddMonths ==
    (Called("jalali_date_add_months") /\ ValidDate /\ num > 0)
       => /\ ret.kind = "text"
          /\ jalali_date_parse(ret.text).ok
          /\ LET d == jalali_date_parse_raw(date)
                 r == jalali_date_parse_raw(ret.text)
                 months == (d.month - 1) + (num % 12)
                 years == (num \div 12) + (months \div 12)
             IN  /\ r.month = (months % 12) + 1
                 /\ ~AddOverflows(d.year, years)
                 /\ r.year = d.year + years
                 /\ r.day = Min(d.day, PersianMonthDays(r.year, r.month))

\* C4: with an anchor day of zero or less, jalali_date_period_state returns Unknown
\* for every valid date, the last day of a month included.
C4_NonPositiveAnchorUnknown ==
    (Called("jalali_date_period_state") /\ ValidDate /\ num <= 0) => ret = TextRet(UnknownText)

DaysApart ==
    Abs(JalaliDaysBetween(jalali_date_parse_raw(date), jalali_date_parse_raw(date2)))

EndsEarlier == Earlier(jalali_date_parse_raw(date2), jalali_date_parse_raw(date))

\* Both dates of a difference have Gregorian years that chrono holds.
InChronoYears ==
    /\ ChronoInRange(jalali_date_to_gregorian_internal(date).year)
    /\ ChronoInRange(jalali_date_to_gregorian_internal(date2).year)

\* C6: jalali_date_diff_with_addition returns n + k when B is on or after A and
\* -(n + k) when B is before A, n being the days between them and k any integer
\* the call takes; jalali_date_diff returns what it returns for k = 0.
C6_AdditionBeforeSign ==
    (Called("jalali_date_diff_with_addition") /\ ValidDate /\ jalali_date_parse(date2).ok)
       => /\ ~AddOverflows(DaysApart, num)
          /\ ret = IntRet(IF EndsEarlier THEN 0 - (DaysApart + num) ELSE DaysApart + num)
          /\ SameYmd(jalali_date_parse_raw(date), jalali_date_parse_raw(date2)) => ret = IntRet(num)
          /\ pc = "chained" => ret2 = IntRet(IF EndsEarlier THEN 0 - DaysApart ELSE DaysApart)
          /\ (pc = "chained" /\ num = 0) => ret2 = ret

\* C6, for dates chrono holds and a sum n + k inside i32: the result is n + k, or
\* -(n + k) when B is before A, and jalali_date_diff is the case k = 0.  A sum
\* past i32 panics or wraps, and a date chrono does not hold fails the call.
C6_AdditionBeforeSignWithinI32 ==
    (Called("jalali_date_diff_with_addition") /\ ValidDate /\ jalali_date_parse(date2).ok)
       => IF ~InChronoYears THEN ret \in {Panic("start"), Panic("end")}
          ELSE IF AddOverflows(DaysApart, num)
          THEN ret \in { Panic("attempt to add with overflow"),
                         SignOfSum(WrappingAdd(DaysApart, num), EndsEarlier, FALSE) }
          ELSE /\ ret = IntRet(IF EndsEarlier THEN 0 - (DaysApart + num) ELSE DaysApart + num)
               /\ SameYmd(jalali_date_parse_raw(date), jalali_date_parse_raw(date2))
                     => ret = IntRet(num)
               /\ pc = "chained"
                     => ret2 = IntRet(IF EndsEarlier THEN 0 - DaysApart ELSE DaysApart)
               /\ (pc = "chained" /\ num = 0) => ret2 = ret

C6_Witness ==
    /\ pc = "chained"
    /\ fn = "jalali_date_diff_with_addition"
    /\ Earlier(jalali_date_parse_raw(date2), jalali_date_parse_raw(date))
    /\ num = 2
    /\ ret.kind = "int"
    /\ ret.int = ret2.int - 2
    /\ ret.int < 0 - 3

\* C7: the last day of a month is End for every anchor day at or past that day,
\* before the day-1 and the anchor-day rules are looked at.
C7_MonthEndIsEnd ==
    (Called("jalali_date_period_state") /\ ValidDate)
       => LET d == jalali_date_parse_raw(date)
          IN  (d.day = PersianMonthDays(d.year, d.month) /\ num >= d.day)
                 => ret = TextRet(EndText)

\* The last day of month 12 of a leap year, the anchor day past it.
C7_Witness ==
    /\ Called("jalali_date_period_state")
    /\ ValidDate
    /\ LET d == jalali_date_parse_raw(date)
       IN  d.month = 12 /\ d.day = 30 /\ num = 31
    /\ ret = TextRet(EndText)

\* C8: jalali_date_add_months on a valid date with a count of zero or less fails
\* with the invalid-months failure and returns no text.
C8_NonPositiveMonthsRejected ==
    (Called("jalali_date_add_months") /\ ValidDate /\ num <= 0)
       => ret = Panic("invalid months value")

C8_Witness ==
    /\ Called("jalali_date_add_months")
    /\ ValidDate
    /\ num = 0 - 3
    /\ ret = Panic("invalid months value")

\* C9: for an anchor day in 1..31, a valid date is End exactly when the day after
\* it, as jalali_date_add_days returns it, is Start.
C9_EndThenStart ==
    (pc \in {"chained", "done"} /\ fn = "jalali_date_period_state" /\ num \in 1..31)
       => /\ ret2.kind = "text"
          /\ pc = "done" => (ret = TextRet(EndText) <=> ret3 = TextRet(StartText))

\* The day-1 rules of a date d and an anchor day.
Rule3a(d, anchor) == d.month = 1 /\ (anchor >= 30 \/ anchor = PersianMonthDays(d.year - 1, 12))

Rule3b(d, anchor) ==
    \/ (d.month \in 2..7 /\ anchor = 31)
    \/ (d.month \in 8..12 /\ anchor >= 30)

\* C10: for an anchor day in 1..31 every valid date is Start, End or Middle, never
\* Unknown; a day 1 that neither day-1 rule makes a Start is End for anchor day 1
\* and Middle otherwise.
C10_TotalOverAnchors ==
    (Called("jalali_date_period_state") /\ ValidDate /\ num \in 1..31)
       => /\ ret.kind = "text"
          /\ ret.text \in {StartText, EndText, MiddleText}
          /\ (jalali_date_parse_raw(date).day = 1
                /\ ~Rule3a(jalali_date_parse_raw(date), num)
                /\ ~Rule3b(jalali_date_parse_raw(date), num))
                => ret = TextRet(IF num = 1 THEN EndText ELSE MiddleText)

\* The day before the date is asked for (day 1 of month 1, an anchor day below
\* 30) and chrono does not hold the date's Gregorian year.
DayBeforeFails ==
    /\ jalali_date_parse_raw(date).month = 1
    /\ jalali_date_parse_raw(date).day = 1
    /\ num < 30
    /\ ~ChronoInRange(jalali_date_to_gregorian_internal(date).year)

\* C10, with the dates chrono does not hold: for an anchor day in 1..31 a valid
\* date is never Unknown; it is Start, End or Middle, but for day 1 of month 1 of
\* a year chrono does not hold and an anchor day below 30, where the call fails;
\* a day 1 that neither day-1 rule makes a Start is End for anchor day 1 and
\* Middle otherwise.
C10_TotalWithinChronoYears ==
    (Called("jalali_date_period_state") /\ ValidDate /\ num \in 1..31)
       => IF DayBeforeFails THEN ret = Panic("iso conversion")
          ELSE /\ ret.kind = "text"
               /\ ret.text \in {StartText, EndText, MiddleText}
               /\ (jalali_date_parse_raw(date).day = 1
                     /\ ~Rule3a(jalali_date_parse_raw(date), num)
                     /\ ~Rule3b(jalali_date_parse_raw(date), num))
                     => ret = TextRet(IF num = 1 THEN EndText ELSE MiddleText)

\* Day 1 of month 1 after a leap year, the anchor day 29: no day-1 rule applies.
C10_Witness ==
    /\ Called("jalali_date_period_state")
    /\ ValidDate
    /\ LET d == jalali_date_parse_raw(date)
       IN  d.month = 1 /\ d.day = 1 /\ PersianIsLeapYear(d.year - 1)
    /\ num = 29
    /\ ret = TextRet(MiddleText)

(***************************************************************************)
(* C1, C2, C3 and C9 fail only where a year is written with a minus sign:  *)
(* each holds for the dates of four-digit years.                           *)
(***************************************************************************)
\* C1, for dates of four-digit years: the round trip returns the date.
C1_RoundTripOfFourDigitYears == YearOfFourDigits => C1_RoundTrip

\* C2, for dates of four-digit years: the difference to the date n days on is n.
C2_AdditiveIdentityOfFourDigitYears == YearOfFourDigits => C2_AdditiveIdentity

\* C3, for dates of four-digit years: the date k months on, its day cut to the month.
C3_AddMonthsOfFourDigitYears == YearOfFourDigits => C3_AddMonths

\* C9, for dates of four-digit years: End exactly when the day after is Start.
C9_EndThenStartOfFourDigitYears == YearOfFourDigits => C9_EndThenStart

\* C4, for the anchor day 0 and dates of four-digit years: Unknown.
C4_ZeroAnchorUnknown == (num = 0 /\ YearOfFourDigits) => C4_NonPositiveAnchorUnknown

====
